---- MODULE Spec2Model ----
(***************************************************************************)
(* Model of the response normalizer of the leaf disease detector:          *)
(* LeafDiseaseDetector._parse_response and DiseaseAnalysisResult in        *)
(* "src/Leaf Disease/main.py".                                             *)
(*                                                                         *)
(* Texts are TLA+ strings, handled character by character, so that         *)
(* str.strip, str.startswith, str.replace, re.search, json.loads, bool()   *)
(* and float() are modelled by what they do to the characters.             *)
(*                                                                         *)
(* Modelled subset of JSON: objects, arrays, strings with the escapes      *)
(* \" \\ \/ \n \t \r, integer numerals, true, false, null.  Fractions,     *)
(* exponents, \u escapes and the NaN/Infinity literals are not produced by *)
(* the inputs enumerated below.                                            *)
(***************************************************************************)
EXTENDS Integers, Sequences, FiniteSets, TLC

(***************************************************************************)
(* Characters and string primitives                                        *)
(***************************************************************************)
Q == "\""
BS == "\\"
\* The grave accent (U+0060) cannot be written in a TLA+ string: BT stands for
\* it, and no modelled text uses the tilde for anything else.
BT == "~"
FENCE == BT \o BT \o BT
FENCE_JSON == FENCE \o "json"

\* the i-th character of s, "" outside the text
Ch(s, i) == IF i >= 1 /\ i <= Len(s) THEN SubSeq(s, i, i) ELSE ""

\* characters removed by str.strip()
PyWhitespace == {" ", "\t", "\n", "\r", "\f"}
\* characters skipped by the json scanner between tokens
JsonWhitespace == {" ", "\t", "\n", "\r"}
\* characters json.loads(strict=True) rejects inside a string
ControlChars == {"\t", "\n", "\r", "\f"}
Digits == {"0", "1", "2", "3", "4", "5", "6", "7", "8", "9"}

DigitVal(c) ==
    CASE c = "0" -> 0 [] c = "1" -> 1 [] c = "2" -> 2 [] c = "3" -> 3
      [] c = "4" -> 4 [] c = "5" -> 5 [] c = "6" -> 6 [] c = "7" -> 7
      [] c = "8" -> 8 [] c = "9" -> 9

RECURSIVE LStripIdx(_, _)
LStripIdx(s, i) ==
    IF i <= Len(s) /\ Ch(s, i) \in PyWhitespace THEN LStripIdx(s, i + 1) ELSE i

RECURSIVE RStripIdx(_, _)
RStripIdx(s, i) ==
    IF i >= 1 /\ Ch(s, i) \in PyWhitespace THEN RStripIdx(s, i - 1) ELSE i

\* str.strip()
Strip(s) ==
    LET l == LStripIdx(s, 1)
        r == RStripIdx(s, Len(s))
    IN  IF l > r THEN "" ELSE SubSeq(s, l, r)

\* str.startswith(p)
StartsWith(s, p) == Len(s) >= Len(p) /\ SubSeq(s, 1, Len(p)) = p

MinOf(S) == CHOOSE x \in S : \A y \in S : x <= y
MaxOf(S) == CHOOSE x \in S : \A y \in S : x >= y

\* the positions at which old occurs in s
Occurrences(s, old) ==
    {i \in 1..(Len(s) - Len(old) + 1) : SubSeq(s, i, i + Len(old) - 1) = old}

\* str.replace(old, ''): the occurrences are taken left to right and do not
\* overlap; the text from index i on, with them removed
RECURSIVE RemoveFrom(_, _, _)
RemoveFrom(s, old, i) ==
    LET rest == {j \in Occurrences(s, old) : j >= i} IN
    IF rest = {} THEN SubSeq(s, i, Len(s))
    ELSE SubSeq(s, i, MinOf(rest) - 1) \o RemoveFrom(s, old, MinOf(rest) + Len(old))

RemoveAll(s, old) == RemoveFrom(s, old, 1)

\* s[:n]
Take(s, n) == IF Len(s) <= n THEN s ELSE SubSeq(s, 1, n)

(***************************************************************************)
(* Python values as json.loads produces them.  t is the Python type, s the *)
(* text of a str (or the compact JSON text of a list or dict), n the       *)
(* number of an int or bool.                                               *)
(***************************************************************************)
PyVal(t, s, n) == [t |-> t, s |-> s, n |-> n]
PyNone == PyVal("none", "", 0)
PyBool(b) == PyVal("bool", "", IF b THEN 1 ELSE 0)
PyNum(n) == PyVal("num", "", n)
PyStr(s) == PyVal("str", s, 0)
PyList(c) == PyVal("list", c, 0)
PyDict(c) == PyVal("dict", c, 0)
EmptyList == PyList("[]")
EmptyDict == [k \in {} |-> PyNone]

\* bool(v): Python truthiness
Truthy(v) ==
    CASE v.t = "none" -> FALSE
      [] v.t = "bool" -> v.n # 0
      [] v.t = "num"  -> v.n # 0
      [] v.t = "str"  -> v.s # ""
      [] v.t = "list" -> v.s # "[]"
      [] v.t = "dict" -> v.s # "{}"

(***************************************************************************)
(* json.loads                                                              *)
(***************************************************************************)
ParseFail == [ok |-> FALSE, next |-> 0, val |-> PyNone, c |-> "", d |-> EmptyDict]
ParseOk(next, val, c, d) == [ok |-> TRUE, next |-> next, val |-> val, c |-> c, d |-> d]

RECURSIVE SkipWS(_, _)
SkipWS(s, i) ==
    IF i <= Len(s) /\ Ch(s, i) \in JsonWhitespace THEN SkipWS(s, i + 1) ELSE i

Unescape(c) ==
    CASE c = "n" -> "\n" [] c = "t" -> "\t" [] c = "r" -> "\r" [] OTHER -> c

\* py_scanstring: i is the index after the opening quote.  The text is
\* taken in chunks, each up to the next quote, backslash or control character.
RECURSIVE ScanString(_, _, _)
ScanString(s, i, acc) ==
    LET special == {j \in i..Len(s) : Ch(s, j) \in {Q, BS} \cup ControlChars} IN
    IF special = {} THEN [ok |-> FALSE, next |-> 0, str |-> ""]
    ELSE LET j == MinOf(special)
             c == Ch(s, j)
             chunk == acc \o SubSeq(s, i, j - 1)
         IN  IF c = Q THEN [ok |-> TRUE, next |-> j + 1, str |-> chunk]
             ELSE IF c = BS /\ Ch(s, j + 1) \in {Q, BS, "/", "n", "t", "r"}
             THEN ScanString(s, j + 2, chunk \o Unescape(Ch(s, j + 1)))
             ELSE [ok |-> FALSE, next |-> 0, str |-> ""]

RECURSIVE ScanDigits(_, _, _)
ScanDigits(s, i, acc) ==
    IF Ch(s, i) \in Digits
    THEN ScanDigits(s, i + 1, 10 * acc + DigitVal(Ch(s, i)))
    ELSE [next |-> i, n |-> acc]

\* NUMBER_RE: -?(0|[1-9][0-9]*)
ScanNumber(s, i) ==
    LET neg == Ch(s, i) = "-"
        j == IF neg THEN i + 1 ELSE i
    IN  IF Ch(s, j) \notin Digits THEN [ok |-> FALSE, next |-> 0, n |-> 0]
        ELSE IF Ch(s, j) = "0" THEN [ok |-> TRUE, next |-> j + 1, n |-> 0]
        ELSE LET r == ScanDigits(s, j, 0)
             IN  [ok |-> TRUE, next |-> r.next, n |-> IF neg THEN 0 - r.n ELSE r.n]

RECURSIVE ScanOnce(_, _), ParsePairs(_, _, _, _), ParseElements(_, _, _)

\* JSONObject after a pair separator: j is the index of the key's quote
ParsePairs(s, j, d, acc) ==
    IF Ch(s, j) # Q THEN ParseFail
    ELSE LET k == ScanString(s, j + 1, "") IN
         IF ~k.ok THEN ParseFail
         ELSE LET j2 == SkipWS(s, k.next) IN
              IF Ch(s, j2) # ":" THEN ParseFail
              ELSE LET v == ScanOnce(s, SkipWS(s, j2 + 1)) IN
                   IF ~v.ok THEN ParseFail
                   ELSE LET j4 == SkipWS(s, v.next)
                            d2 == [x \in (DOMAIN d) \cup {k.str} |->
                                     IF x = k.str THEN v.val ELSE d[x]]
                            acc2 == acc \o SubSeq(s, j, k.next - 1) \o ":" \o v.c
                        IN  IF Ch(s, j4) = "}"
                            THEN ParseOk(j4 + 1, PyDict(acc2 \o "}"), acc2 \o "}", d2)
                            ELSE IF Ch(s, j4) = ","
                            THEN ParsePairs(s, SkipWS(s, j4 + 1), d2, acc2 \o ",")
                            ELSE ParseFail

\* JSONArray: j is the index of the next element
ParseElements(s, j, acc) ==
    LET v == ScanOnce(s, j) IN
    IF ~v.ok THEN ParseFail
    ELSE LET j2 == SkipWS(s, v.next)
             acc2 == acc \o v.c
         IN  IF Ch(s, j2) = "]"
             THEN ParseOk(j2 + 1, PyList(acc2 \o "]"), acc2 \o "]", EmptyDict)
             ELSE IF Ch(s, j2) = ","
             THEN ParseElements(s, SkipWS(s, j2 + 1), acc2 \o ",")
             ELSE ParseFail

\* scanner.py_make_scanner._scan_once
ScanOnce(s, i) ==
    LET c == Ch(s, i) IN
    IF c = Q
    THEN LET r == ScanString(s, i + 1, "") IN
         IF r.ok THEN ParseOk(r.next, PyStr(r.str), SubSeq(s, i, r.next - 1), EmptyDict)
         ELSE ParseFail
    ELSE IF c = "{"
    THEN LET j == SkipWS(s, i + 1) IN
         IF Ch(s, j) = "}" THEN ParseOk(j + 1, PyDict("{}"), "{}", EmptyDict)
         ELSE ParsePairs(s, j, EmptyDict, "{")
    ELSE IF c = "["
    THEN LET j == SkipWS(s, i + 1) IN
         IF Ch(s, j) = "]" THEN ParseOk(j + 1, EmptyList, "[]", EmptyDict)
         ELSE ParseElements(s, j, "[")
    ELSE IF c = "n" /\ i + 3 <= Len(s) /\ SubSeq(s, i, i + 3) = "null"
    THEN ParseOk(i + 4, PyNone, "null", EmptyDict)
    ELSE IF c = "t" /\ i + 3 <= Len(s) /\ SubSeq(s, i, i + 3) = "true"
    THEN ParseOk(i + 4, PyBool(TRUE), "true", EmptyDict)
    ELSE IF c = "f" /\ i + 4 <= Len(s) /\ SubSeq(s, i, i + 4) = "false"
    THEN ParseOk(i + 5, PyBool(FALSE), "false", EmptyDict)
    ELSE LET r == ScanNumber(s, i) IN
         IF r.ok THEN ParseOk(r.next, PyNum(r.n), SubSeq(s, i, r.next - 1), EmptyDict)
         ELSE ParseFail

\* json.loads(s): ok = FALSE stands for JSONDecodeError
JsonLoads(s) ==
    LET v == ScanOnce(s, SkipWS(s, 1)) IN
    IF v.ok /\ SkipWS(s, v.next) = Len(s) + 1
    THEN [ok |-> TRUE, val |-> v.val, d |-> v.d]
    ELSE [ok |-> FALSE, val |-> PyNone, d |-> EmptyDict]

(***************************************************************************)
(* re.search(r'\{.*\}', text, re.DOTALL)                                   *)
(***************************************************************************)
\* the positions of the character c in s
Positions(s, c) == {i \in 1..Len(s) : Ch(s, i) = c}

\* The pattern matches at a start position i when s[i] is "{" and a "}"
\* follows; the greedy .* then ends the match at the last such "}".
\* re.search returns the match at the leftmost start position.
MatchStarts(s) ==
    {i \in Positions(s, "{") : \E j \in Positions(s, "}") : j > i}

\* faulty variant: a lazy .*? ends the match at the first "}" after the start
RegexSearchLazy(s) ==
    IF MatchStarts(s) = {} THEN [found |-> FALSE, group |-> ""]
    ELSE LET i == MinOf(MatchStarts(s))
             j == MinOf({k \in Positions(s, "}") : k > i})
         IN  [found |-> TRUE, group |-> SubSeq(s, i, j)]

RegexSearch(s) ==
    IF MatchStarts(s) = {} THEN [found |-> FALSE, group |-> ""]
    ELSE LET i == MinOf(MatchStarts(s))
             j == MaxOf({k \in Positions(s, "}") : k > i})
         IN  [found |-> TRUE, group |-> SubSeq(s, i, j)]

(***************************************************************************)
(* float(v)                                                                *)
(***************************************************************************)
RECURSIVE AllDigits(_, _)
AllDigits(s, i) ==
    IF i > Len(s) THEN TRUE
    ELSE Ch(s, i) \in Digits /\ AllDigits(s, i + 1)

\* float() of a str: surrounding whitespace, an optional sign, decimal digits
FloatOfStr(s) ==
    LET t == Strip(s)
        signed == Ch(t, 1) \in {"+", "-"}
        j == IF signed THEN 2 ELSE 1
    IN  IF j <= Len(t) /\ AllDigits(t, j)
        THEN [err |-> "", n |-> IF Ch(t, 1) = "-" THEN 0 - ScanDigits(t, j, 0).n
                                ELSE ScanDigits(t, j, 0).n]
        ELSE [err |-> "ValueError", n |-> 0]

FloatOf(v) ==
    CASE v.t \in {"num", "bool"} -> [err |-> "", n |-> v.n]
      [] v.t = "str" -> FloatOfStr(v.s)
      [] OTHER -> [err |-> "TypeError", n |-> 0]

(***************************************************************************)
(* DiseaseAnalysisResult                                                   *)
(***************************************************************************)
BoolFields == {"disease_detected", "pest_detected"}
NameFields == {"disease_name", "pest_name"}
LabelFields == {"disease_type", "severity", "pest_severity"}
NumberFields == {"confidence", "pest_confidence"}
ListFields == {"symptoms", "possible_causes", "treatment", "common_pests",
               "pest_symptoms", "pest_treatment"}
Fields == BoolFields \cup NameFields \cup LabelFields \cup NumberFields \cup ListFields

\* __post_init__: three of the list fields are replaced by [] when None
PostInit(self) ==
    [self EXCEPT
       !.common_pests = IF @ = PyNone THEN EmptyList ELSE @,
       !.pest_symptoms = IF @ = PyNone THEN EmptyList ELSE @,
       !.pest_treatment = IF @ = PyNone THEN EmptyList ELSE @]

\* faulty variant: dict.get(key), the default left out
GetNoDefault(d, key, default) == IF key \in DOMAIN d THEN d[key] ELSE PyNone

\* dict.get(key, default)
Get(d, key, default) == IF key \in DOMAIN d THEN d[key] ELSE default

\* faulty variant: confidence and pest_confidence take each other's value
ResultArgsSwapped(d, confidence, pest_confidence) ==
    [disease_detected |-> Truthy(Get(d, "disease_detected", PyBool(FALSE))),
     disease_name     |-> Get(d, "disease_name", PyNone),
     disease_type     |-> Get(d, "disease_type", PyStr("unknown")),
     severity         |-> Get(d, "severity", PyStr("unknown")),
     confidence       |-> pest_confidence,
     symptoms         |-> Get(d, "symptoms", EmptyList),
     possible_causes  |-> Get(d, "possible_causes", EmptyList),
     treatment        |-> Get(d, "treatment", EmptyList),
     common_pests     |-> Get(d, "common_pests", EmptyList),
     pest_detected    |-> Truthy(Get(d, "pest_detected", PyBool(FALSE))),
     pest_name        |-> Get(d, "pest_name", PyNone),
     pest_severity    |-> Get(d, "pest_severity", PyStr("none")),
     pest_confidence  |-> confidence,
     pest_symptoms    |-> Get(d, "pest_symptoms", EmptyList),
     pest_treatment   |-> Get(d, "pest_treatment", EmptyList)]

\* the keyword arguments of the DiseaseAnalysisResult(...) call
ResultArgs(d, confidence, pest_confidence) ==
    [disease_detected |-> Truthy(Get(d, "disease_detected", PyBool(FALSE))),
     disease_name     |-> Get(d, "disease_name", PyNone),
     disease_type     |-> Get(d, "disease_type", PyStr("unknown")),
     severity         |-> Get(d, "severity", PyStr("unknown")),
     confidence       |-> confidence,
     symptoms         |-> Get(d, "symptoms", EmptyList),
     possible_causes  |-> Get(d, "possible_causes", EmptyList),
     treatment        |-> Get(d, "treatment", EmptyList),
     common_pests     |-> Get(d, "common_pests", EmptyList),
     pest_detected    |-> Truthy(Get(d, "pest_detected", PyBool(FALSE))),
     pest_name        |-> Get(d, "pest_name", PyNone),
     pest_severity    |-> Get(d, "pest_severity", PyStr("none")),
     pest_confidence  |-> pest_confidence,
     pest_symptoms    |-> Get(d, "pest_symptoms", EmptyList),
     pest_treatment   |-> Get(d, "pest_treatment", EmptyList)]

NoResult == ResultArgs(EmptyDict, 0, 0)

\* Evaluation of "return DiseaseAnalysisResult(...)" on the value json.loads
\* returned.  The arguments are evaluated in order; err names the exception
\* the first failing argument raises ("" when the record is constructed).
BuildResult(data) ==
    IF data.val.t # "dict"
    THEN [err |-> "AttributeError", key |-> "", rec |-> NoResult]
    ELSE LET confidence == FloatOf(Get(data.d, "confidence", PyNum(0)))
             pest_confidence == FloatOf(Get(data.d, "pest_confidence", PyNum(0)))
         IN  IF confidence.err # ""
             THEN [err |-> confidence.err, key |-> "confidence", rec |-> NoResult]
             ELSE IF pest_confidence.err # ""
             THEN [err |-> pest_confidence.err, key |-> "pest_confidence", rec |-> NoResult]
             ELSE [err |-> "", key |-> "",
                   rec |-> PostInit(ResultArgs(data.d, confidence.n, pest_confidence.n))]

(***************************************************************************)
(* _parse_response, step by step                                           *)
(***************************************************************************)
\* lines 209-214: strip, then remove the fence markers
CleanResponse(response_content) ==
    LET stripped == Strip(response_content) IN
    IF StartsWith(stripped, FENCE_JSON)
    THEN Strip(RemoveAll(RemoveAll(stripped, FENCE_JSON), FENCE))
    ELSE IF StartsWith(stripped, FENCE)
    THEN Strip(RemoveAll(stripped, FENCE))
    ELSE stripped

DIAG_LEN == 200

\* faulty variant: the excerpt cut at 20 characters
UnparseableMessageShort(response_content) ==
    "Unable to parse API response as JSON: " \o Take(response_content, 20) \o "..."

UnparseableMessage(response_content) ==
    "Unable to parse API response as JSON: " \o Take(response_content, DIAG_LEN) \o "..."

NoData == [ok |-> FALSE, val |-> PyNone, d |-> EmptyDict]
NoError == [kind |-> "", key |-> "", msg |-> ""]

VARIABLES
    inp,                \* how the text was put together: prefix, body, suffix
    response_content,   \* the raw reply handed to _parse_response
    pc,                 \* position in _parse_response
    cleaned_response,
    json_match,         \* the regex match of the fallback
    disease_data,       \* what json.loads returned
    result,             \* the record returned (pc = "Done")
    error,              \* the exception that escaped (pc = "Failed" or "Raised")
    hist                \* the positions passed so far

normVars == <<inp, response_content, pc, cleaned_response, json_match, disease_data,
              result, error, hist>>

\* analyze_leaf_image_base64 and its caller test_with_base64_data
VARIABLES
    clock,              \* what datetime.now() returns
    default_timestamp,  \* the class attribute DiseaseAnalysisResult.analysis_timestamp
    calls,              \* calls made so far
    via,                \* "direct", or "test" for a call by test_with_base64_data
    base64_image,       \* the arguments of the call
    temperature,
    max_tokens,
    a_pc,               \* position of the call
    request,            \* the request handed to client.chat.completions.create
    sent,               \* requests sent by the call
    returned,           \* result.__dict__ as returned by analyze_leaf_image_base64
    a_error,            \* the exception analyze_leaf_image_base64 raised
    records,            \* every DiseaseAnalysisResult constructed so far
    t_result            \* what test_with_base64_data returned

analyzeVars == <<clock, default_timestamp, calls, via, base64_image, temperature,
                 max_tokens, a_pc, request, sent, returned, a_error, records,
                 t_result>>

\* concurrent invocations of _parse_response, one per request
VARIABLES
    c_text,             \* response_content of each invocation
    c_pc,
    c_cleaned,
    c_data,
    c_result,
    c_error

concVars == <<c_text, c_pc, c_cleaned, c_data, c_result, c_error>>

\* add_mock_pest_data
VARIABLES
    mock_now,           \* what datetime.now() returns during the call
    mock_in,            \* the dict passed in
    mock_pc,
    mock_result         \* the dict, as the function leaves and returns it

mockVars == <<mock_now, mock_in, mock_pc, mock_result>>

vars == <<normVars, analyzeVars, concVars, mockVars>>

(***************************************************************************)
(* The replies the normalizer is run on                                    *)
(***************************************************************************)
MaxAbsent == 2      \* keys left out of a complete reply
MaxPad == 1         \* whitespace characters around a reply
LongRepeat == 8     \* repetitions of a sentence in the long replies

Str(s) == Q \o s \o Q
Pair(k, v) == [k |-> k, v |-> v]

RECURSIVE JoinPairs(_)
JoinPairs(ps) ==
    IF Len(ps) = 0 THEN ""
    ELSE Str(ps[1].k) \o ": " \o ps[1].v
         \o (IF Len(ps) = 1 THEN "" ELSE ", " \o JoinPairs(Tail(ps)))

\* the text of a JSON object with the given members
ObjectText(ps) == "{" \o JoinPairs(ps) \o "}"

RECURSIVE Repeat(_, _)
Repeat(s, n) == IF n = 0 THEN "" ELSE s \o Repeat(s, n - 1)

\* member values: the types JSON has, in the forms the claims are about
ValueTexts ==
    {"true", "false", "null", "0", "85", "-1",
     Str("eighty-five"), Str("85"), Str(""), Str("false"), Str("invalid_image"),
     Str("Aphids"), Str("a" \o FENCE \o "b"), Str(FENCE_JSON), Str("{"),
     "[]", "[" \o Str("leaf spots") \o "]", "{}"}

\* the invalid-image reply of the prompt (lines 92-107)
InvalidImageReply ==
    << Pair("disease_detected", "false"),
       Pair("disease_name", "null"),
       Pair("disease_type", Str("invalid_image")),
       Pair("severity", Str("none")),
       Pair("confidence", "95"),
       Pair("symptoms", "[" \o Str("This image does not contain a plant leaf") \o "]"),
       Pair("possible_causes", "[" \o Str("Invalid image type uploaded") \o "]"),
       Pair("treatment", "[" \o Str("Please upload an image of a plant leaf") \o "]"),
       Pair("pest_detected", "false"),
       Pair("pest_name", "null"),
       Pair("pest_severity", Str("none")),
       Pair("pest_confidence", "0"),
       Pair("pest_symptoms", "[]"),
       Pair("pest_treatment", "[]") >>

\* a reply in the valid-leaf format of the prompt (lines 110-126)
ValidLeafReply ==
    << Pair("disease_detected", "true"),
       Pair("disease_name", Str("Brown Spot")),
       Pair("disease_type", Str("fungal")),
       Pair("severity", Str("moderate")),
       Pair("confidence", "85"),
       Pair("symptoms", "[" \o Str("brown spots") \o ", " \o Str("yellow halo") \o "]"),
       Pair("possible_causes", "[" \o Str("humidity") \o "]"),
       Pair("treatment", "[" \o Str("fungicide") \o "]"),
       Pair("common_pests", "[" \o Str("Aphids") \o "]"),
       Pair("pest_detected", "true"),
       Pair("pest_name", Str("Aphids")),
       Pair("pest_severity", Str("mild")),
       Pair("pest_confidence", "75"),
       Pair("pest_symptoms", "[" \o Str("sticky residue") \o "]"),
       Pair("pest_treatment", "[" \o Str("neem oil") \o "]") >>

Without(ps, absent) ==
    LET Kept(p) == p.k \notin absent IN SelectSeq(ps, Kept)

AbsentSets == {S \in SUBSET Fields : Cardinality(S) <= MaxAbsent}

\* members put in front of a second member
Anchors ==
    { Pair("disease_type", Str("invalid_image")),
      Pair("pest_detected", "true") }

ObjectBodies ==
    {"{}"}
    \cup {ObjectText(<<Pair(k, v)>>) : k \in Fields, v \in ValueTexts}
    \cup {ObjectText(<<a, Pair(k, v)>>) : a \in Anchors, k \in Fields, v \in ValueTexts}

\* complete replies with some keys left out
ReplyBodies ==
    {ObjectText(Without(r, S)) : r \in {InvalidImageReply, ValidLeafReply},
                                 S \in AbsentSets}

Sentence == "I cannot analyze this image."

OtherBodies ==
    {"", Sentence, "[1]", "[]", "85", "null", "true", Str("fungal"),
     "{", "}", "} {", "{not json}", "{" \o Str("confidence") \o ": }",
     "{" \o Str("confidence") \o ": 85,}",
     Repeat(Sentence \o " ", LongRepeat),
     "{" \o Repeat(Sentence \o " ", LongRepeat),
     Repeat(Sentence \o " ", LongRepeat) \o "{x}" \o Sentence}

Pad(c) == {Repeat(c, n) : n \in 0..MaxPad}

\* what the model service puts around the object: nothing, whitespace, a
\* fenced code block (no tag, json, another tag), prose
Wrappers ==
    {[pre |-> l, post |-> r] : l \in Pad(" "), r \in Pad("\n")}
    \cup {[pre |-> FENCE \o t \o "\n", post |-> "\n" \o FENCE] :
              t \in {"", "json", "python", "JSON"}}
    \cup {[pre |-> "Here is the result: ", post |-> " Thanks."],
          [pre |-> "Result:\n", post |-> ""],
          [pre |-> "", post |-> "\nI am 85% sure."],
          [pre |-> "Use {x}: ", post |-> ""],
          [pre |-> "", post |-> " (see {notes})"],
          [pre |-> "The model said: " \o Q, post |-> Q],
          [pre |-> "[", post |-> "]"],
          [pre |-> Q, post |-> Q]}

ReplyWrappers ==
    {[pre |-> "", post |-> ""],
     [pre |-> FENCE_JSON \o "\n", post |-> "\n" \o FENCE],
     [pre |-> "Here is the result: ", post |-> " Thanks."]}

Inputs ==
    {[pre |-> w.pre, body |-> b, post |-> w.post] :
        w \in Wrappers, b \in ObjectBodies \cup OtherBodies}
    \cup {[pre |-> w.pre, body |-> b, post |-> w.post] :
        w \in ReplyWrappers, b \in ReplyBodies}

\* the values the variables of the other operations hold while they are not run
NotLoaded == 0 - 1
NoDict == [k \in {} |-> PyNone]
NoRequest == [url |-> "", temperature |-> PyNone, max_completion_tokens |-> PyNone]

AnalyzeIdle ==
    /\ clock = 0
    /\ default_timestamp = NotLoaded
    /\ calls = 0
    /\ via = ""
    /\ base64_image = PyNone
    /\ temperature = PyNone
    /\ max_tokens = PyNone
    /\ a_pc = "Idle"
    /\ request = NoRequest
    /\ sent = 0
    /\ returned = NoDict
    /\ a_error = ""
    /\ records = <<>>
    /\ t_result = NoDict

ConcIdle ==
    /\ c_text = <<>>
    /\ c_pc = <<>>
    /\ c_cleaned = <<>>
    /\ c_data = <<>>
    /\ c_result = <<>>
    /\ c_error = <<>>

MockIdle ==
    /\ mock_now = 0
    /\ mock_in = NoDict
    /\ mock_pc = "Idle"
    /\ mock_result = NoDict

Init ==
    /\ inp \in Inputs
    /\ response_content = inp.pre \o inp.body \o inp.post
    /\ pc = "Start"
    /\ cleaned_response = ""
    /\ json_match = [found |-> FALSE, group |-> ""]
    /\ disease_data = NoData
    /\ result = NoResult
    /\ error = NoError
    /\ hist = <<"Start">>
    /\ AnalyzeIdle /\ ConcIdle /\ MockIdle

Goto(p) == pc' = p /\ hist' = Append(hist, p)

\* lines 209-214
Clean ==
    /\ pc = "Start"
    /\ cleaned_response' = CleanResponse(response_content)
    /\ Goto("DirectParse")
    /\ UNCHANGED <<inp, response_content, json_match, disease_data, result, error>>
    /\ UNCHANGED <<analyzeVars, concVars, mockVars>>

\* line 217, json.loads returns
DirectParseSuccess ==
    /\ pc = "DirectParse"
    /\ JsonLoads(cleaned_response).ok
    /\ disease_data' = JsonLoads(cleaned_response)
    /\ Goto("Validate")
    /\ UNCHANGED <<inp, response_content, cleaned_response, json_match, result, error>>
    /\ UNCHANGED <<analyzeVars, concVars, mockVars>>

\* line 217 raises JSONDecodeError, caught at line 240
DirectParseFailure ==
    /\ pc = "DirectParse"
    /\ ~JsonLoads(cleaned_response).ok
    /\ Goto("ExtractEmbedded")
    /\ UNCHANGED <<inp, response_content, cleaned_response, json_match, disease_data,
                   result, error>>
    /\ UNCHANGED <<analyzeVars, concVars, mockVars>>

\* lines 246-250: the match is found and parses
ExtractSuccess ==
    /\ pc = "ExtractEmbedded"
    /\ LET m == RegexSearch(response_content) IN
       /\ m.found
       /\ JsonLoads(m.group).ok
       /\ json_match' = m
       /\ disease_data' = JsonLoads(m.group)
    /\ Goto("Validate")
    /\ UNCHANGED <<inp, response_content, cleaned_response, result, error>>
    /\ UNCHANGED <<analyzeVars, concVars, mockVars>>

\* lines 246-279: no match, or the match does not parse; ValueError is raised
ExtractFailure ==
    /\ pc = "ExtractEmbedded"
    /\ LET m == RegexSearch(response_content) IN
       /\ ~(m.found /\ JsonLoads(m.group).ok)
       /\ json_match' = m
    /\ error' = [kind |-> "ValueError", key |-> "",
                 msg |-> UnparseableMessage(response_content)]
    /\ Goto("Failed")
    /\ UNCHANGED <<inp, response_content, cleaned_response, disease_data, result>>
    /\ UNCHANGED <<analyzeVars, concVars, mockVars>>

\* lines 221-238 and 252-271: the record is constructed and returned
ValidateReturn ==
    /\ pc = "Validate"
    /\ BuildResult(disease_data).err = ""
    /\ result' = BuildResult(disease_data).rec
    /\ Goto("Done")
    /\ UNCHANGED <<inp, response_content, cleaned_response, json_match, disease_data,
                   error>>
    /\ UNCHANGED <<analyzeVars, concVars, mockVars>>

\* lines 221-238 and 252-271: an argument raises; neither except clause
\* (json.JSONDecodeError) catches it, so it leaves _parse_response
ValidateRaise ==
    /\ pc = "Validate"
    /\ BuildResult(disease_data).err # ""
    /\ error' = [kind |-> BuildResult(disease_data).err,
                 key |-> BuildResult(disease_data).key, msg |-> ""]
    /\ Goto("Raised")
    /\ UNCHANGED <<inp, response_content, cleaned_response, json_match, disease_data,
                   result>>
    /\ UNCHANGED <<analyzeVars, concVars, mockVars>>



Next ==
    \/ Clean
    \/ DirectParseSuccess
    \/ DirectParseFailure
    \/ ExtractSuccess
    \/ ExtractFailure
    \/ ValidateReturn
    \/ ValidateRaise

Spec == Init /\ [][Next]_vars

\* _parse_response as a function of the text: what the steps above end in
Normalize(text) ==
    LET direct == JsonLoads(CleanResponse(text))
        m == RegexSearch(text)
        embedded == IF m.found THEN JsonLoads(m.group) ELSE NoData
        data == IF direct.ok THEN direct ELSE embedded
        built == BuildResult(data)
    IN  IF ~data.ok
        THEN [pc |-> "Failed", result |-> NoResult,
              error |-> [kind |-> "ValueError", key |-> "",
                         msg |-> UnparseableMessage(text)]]
        ELSE IF built.err # ""
        THEN [pc |-> "Raised", result |-> NoResult,
              error |-> [kind |-> built.err, key |-> built.key, msg |-> ""]]
        ELSE [pc |-> "Done", result |-> built.rec, error |-> NoError]

Outcome == [pc |-> pc, result |-> result, error |-> error]
Terminal == pc \in {"Done", "Failed", "Raised"}

\* json.loads returned a dict
ParsedObject == disease_data.ok /\ disease_data.val.t = "dict"
\* the text of a JSON object
ValidObject(text) == JsonLoads(text).ok /\ JsonLoads(text).val.t = "dict"

\* the default the data model documents for each field
DocumentedDefault(k) ==
    CASE k \in BoolFields -> FALSE
      [] k \in NameFields -> PyNone
      [] k \in {"disease_type", "severity"} -> PyStr("unknown")
      [] k = "pest_severity" -> PyStr("none")
      [] k \in NumberFields -> 0
      [] k \in ListFields -> EmptyList

(***************************************************************************)
(* C1: every run of the normalizer ends in Done or in Failed; Failed is    *)
(* reached only after the direct parse and then the embedded extraction    *)
(* failed, the extraction is tried only after the direct parse failed, and *)
(* no other error leaves the normalizer.                                   *)
(***************************************************************************)
C1_TwoTerminalOutcomes ==
    /\ pc # "Raised"
    /\ pc = "Failed" =>
          /\ error.kind = "ValueError"
          /\ hist = <<"Start", "DirectParse", "ExtractEmbedded", "Failed">>
    /\ pc = "ExtractEmbedded" => ~JsonLoads(cleaned_response).ok
    /\ pc = "Done" => hist[Len(hist) - 1] = "Validate"

(***************************************************************************)
(* C2: a parsed object whose confidence or pest_confidence is not numeric  *)
(* yields a record with that field 0, on either path, and no error.        *)
(***************************************************************************)
NonNumeric(v) ==
    \/ v.t \in {"none", "list", "dict"}
    \/ v.t = "str" /\ FloatOfStr(v.s).err # ""

C2_NonNumericIsZero ==
    \A k \in NumberFields :
        (Terminal /\ ParsedObject /\ k \in DOMAIN disease_data.d
                  /\ NonNumeric(disease_data.d[k]))
        => (pc = "Done" /\ result[k] = 0)

(***************************************************************************)
(* C3: in every returned record the six sequence fields are present and    *)
(* not null.                                                               *)
(***************************************************************************)
C3_SequencesNotNull ==
    pc = "Done" => \A k \in ListFields : result[k].t # "none"

(***************************************************************************)
(* C4: in every returned record, disease_type "invalid_image" implies      *)
(* disease_detected false and every pest field at its default.             *)
(***************************************************************************)
C4_InvalidImageDefaults ==
    (pc = "Done" /\ result.disease_type = PyStr("invalid_image"))
    => /\ ~result.disease_detected
       /\ ~result.pest_detected
       /\ result.pest_name = PyNone
       /\ result.pest_severity = PyStr("none")
       /\ result.pest_confidence = 0
       /\ result.pest_symptoms = EmptyList
       /\ result.pest_treatment = EmptyList

(***************************************************************************)
(* C5: in every returned record, pest_detected implies pest_name not null. *)
(***************************************************************************)
C5_PestDetectedHasName ==
    (pc = "Done" /\ result.pest_detected) => result.pest_name # PyNone

(***************************************************************************)
(* C6: a field whose value has the wrong type (not a boolean for a boolean *)
(* field, not a string for disease_type, severity, pest_severity, not a    *)
(* list for a sequence field) gets the documented default.                 *)
(***************************************************************************)
WrongType(k, v) ==
    \/ k \in BoolFields /\ v.t # "bool"
    \/ k \in LabelFields /\ v.t # "str"
    \/ k \in ListFields /\ v.t # "list"

C6_WrongTypeGetsDefault ==
    \A k \in BoolFields \cup LabelFields \cup ListFields :
        (Terminal /\ ParsedObject /\ k \in DOMAIN disease_data.d
                  /\ WrongType(k, disease_data.d[k]))
        => (pc = "Done" /\ result[k] = DocumentedDefault(k))

(***************************************************************************)
(* C7: an object wrapped in a fenced code block with a language tag gives  *)
(* the same outcome as the object alone, also when a string inside the     *)
(* object contains the fence marker.                                       *)
(***************************************************************************)
FenceTags == {"json", "python", "JSON"}
TaggedFence ==
    /\ \E t \in FenceTags : inp.pre = FENCE \o t \o "\n"
    /\ inp.post = "\n" \o FENCE

C7_TaggedFenceSameAsBare ==
    (Terminal /\ TaggedFence /\ ValidObject(inp.body))
    => Outcome = Normalize(inp.body)

(***************************************************************************)
(* C8: an object between a prose prefix and a prose suffix without braces  *)
(* gives the same outcome as the object alone, and the candidate of the    *)
(* extraction is the text from the first "{" to the last "}" of the reply. *)
(* Prose is blank or begins with a letter.                                 *)
(***************************************************************************)
Letters ==
    {"a", "b", "c", "d", "e", "f", "g", "h", "i", "j", "k", "l", "m", "n", "o",
     "p", "q", "r", "s", "t", "u", "v", "w", "x", "y", "z",
     "A", "B", "C", "D", "E", "F", "G", "H", "I", "J", "K", "L", "M", "N", "O",
     "P", "Q", "R", "S", "T", "U", "V", "W", "X", "Y", "Z"}
BraceFree(s) == Positions(s, "{") = {} /\ Positions(s, "}") = {}
ProsePrefix(s) ==
    BraceFree(s) /\ (Strip(s) = "" \/ Ch(Strip(s), 1) \in Letters)
ProseSuffix(s) == BraceFree(s)

C8_EmbeddedSameAsBare ==
    /\ (Terminal /\ ProsePrefix(inp.pre) /\ ProseSuffix(inp.post)
                 /\ ValidObject(inp.body))
       => Outcome = Normalize(inp.body)
    /\ json_match.found
       => json_match.group =
             SubSeq(response_content, MinOf(Positions(response_content, "{")),
                    MaxOf(Positions(response_content, "}")))

C8_Witness ==
    /\ pc = "Done"
    /\ inp.pre = "Here is the result: " /\ inp.post = " Thanks."
    /\ inp.body = ObjectText(ValidLeafReply)
    /\ json_match.found /\ json_match.group = inp.body
    /\ result.disease_name = PyStr("Brown Spot")

(***************************************************************************)
(* C9: every key absent from the parsed object has its documented default  *)
(* in the returned record, and no absent key is the cause of an error.     *)
(***************************************************************************)
C9_AbsentKeysDefault ==
    /\ pc = "Done" =>
          \A k \in Fields \ DOMAIN disease_data.d : result[k] = DocumentedDefault(k)
    /\ (pc = "Raised" /\ ParsedObject) => error.key \in DOMAIN disease_data.d

C9_Witness ==
    /\ pc = "Done"
    /\ DOMAIN disease_data.d # {}
    /\ {"pest_confidence", "symptoms"} \cap DOMAIN disease_data.d = {}
    /\ result.pest_confidence = 0 /\ result.symptoms = EmptyList

(***************************************************************************)
(* C10: a reply that does not parse directly and in which no text from a   *)
(* "{" to a later "}" parses gives no record: ValueError is raised and its *)
(* message carries the first 200 characters of the reply.                  *)
(***************************************************************************)
NoBracePairParses(text) ==
    \A i \in Positions(text, "{") : \A j \in Positions(text, "}") :
        j > i => ~JsonLoads(SubSeq(text, i, j)).ok

Carries(msg, excerpt) ==
    \E i \in 1..(Len(msg) + 1) :
        i + Len(excerpt) - 1 <= Len(msg) /\ SubSeq(msg, i, i + Len(excerpt) - 1) = excerpt

C10_HardFailure ==
    (Terminal /\ ~JsonLoads(CleanResponse(response_content)).ok
              /\ NoBracePairParses(response_content))
    => /\ pc = "Failed"
       /\ result = NoResult
       /\ error.kind = "ValueError"
       /\ Carries(error.msg,
                  IF Len(response_content) > 200
                  THEN SubSeq(response_content, 1, 200) ELSE response_content)

C10_Witness ==
    /\ pc = "Failed"
    /\ Len(response_content) > 200
    /\ Positions(response_content, "{") = {}

(***************************************************************************)
(* C11: a reply that follows the invalid-image convention (disease_detected*)
(* false, disease_type "invalid_image", confidence 95, one-element symptoms*)
(* and treatment, pest keys left out or at their defaults) is returned     *)
(* with these values as they are and with every pest field at its default. *)
(***************************************************************************)
OneElementList(v) == v.t = "list" /\ v.s # "[]" /\ Positions(v.s, ",") = {}

PestKeyDefault(k) ==
    CASE k = "pest_detected" -> PyBool(FALSE)
      [] k = "pest_name" -> PyNone
      [] k = "pest_severity" -> PyStr("none")
      [] k = "pest_confidence" -> PyNum(0)
      [] k \in {"pest_symptoms", "pest_treatment"} -> EmptyList

PestKeys == {"pest_detected", "pest_name", "pest_severity", "pest_confidence",
             "pest_symptoms", "pest_treatment"}

InvalidImageConvention(d) ==
    /\ {"disease_detected", "disease_type", "confidence", "symptoms", "treatment"}
          \subseteq DOMAIN d
    /\ d["disease_detected"] = PyBool(FALSE)
    /\ d["disease_type"] = PyStr("invalid_image")
    /\ d["confidence"] = PyNum(95)
    /\ OneElementList(d["symptoms"])
    /\ OneElementList(d["treatment"])
    /\ \A k \in PestKeys : k \in DOMAIN d => d[k] = PestKeyDefault(k)

C11_InvalidImagePassthrough ==
    (Terminal /\ ParsedObject /\ InvalidImageConvention(disease_data.d))
    => /\ pc = "Done"
       /\ result.disease_detected = FALSE
       /\ result.disease_type = PyStr("invalid_image")
       /\ result.confidence = 95
       /\ result.symptoms = disease_data.d["symptoms"]
       /\ result.treatment = disease_data.d["treatment"]
       /\ result.pest_detected = FALSE
       /\ result.pest_name = PyNone
       /\ result.pest_severity = PyStr("none")
       /\ result.pest_confidence = 0
       /\ result.pest_symptoms = EmptyList
       /\ result.pest_treatment = EmptyList

C11_Witness ==
    /\ pc = "Done"
    /\ inp.body = ObjectText(Without(InvalidImageReply, {"pest_name", "pest_confidence"}))
    /\ inp.pre = "Here is the result: "
    /\ result.confidence = 95
    /\ result.symptoms = PyList("[" \o Str("This image does not contain a plant leaf") \o "]")

(***************************************************************************)
(* analyze_leaf_image_base64 ("src/Leaf Disease/main.py") and its caller   *)
(* test_with_base64_data ("src/utils.py")                                  *)
(***************************************************************************)
MaxClock == 2       \* clock ticks
MaxCalls == 2       \* calls in a run

\* temperatures are counted in tenths: 3 is 0.3
DEFAULT_TEMPERATURE == 3
DEFAULT_MAX_TOKENS == 1024
IMAGE_URL_PREFIX == "data:image/jpeg;base64,"

NormIdle ==
    /\ inp = [pre |-> "", body |-> "", post |-> ""]
    /\ response_content = ""
    /\ pc = "Idle"
    /\ cleaned_response = ""
    /\ json_match = [found |-> FALSE, group |-> ""]
    /\ disease_data = NoData
    /\ result = NoResult
    /\ error = NoError
    /\ hist = <<>>

\* x or y
PyOr(x, y) == IF Truthy(x) THEN x ELSE y

\* faulty variant: the emptiness check of lines 154-155 left out
PayloadErrorNoEmptyCheck(b) ==
    IF b.t # "str" THEN "ValueError"
    ELSE IF StartsWith(b.s, "data:") /\ Positions(b.s, ",") = {} THEN "IndexError"
    ELSE ""

\* lines 151-159: the exception the validation and the cleaning of the
\* payload raise, "" when there is none.  split(',', 1) of a text without a
\* comma has one element, and [1] raises IndexError.
PayloadError(b) ==
    IF b.t # "str" THEN "ValueError"
    ELSE IF b.s = "" THEN "ValueError"
    ELSE IF StartsWith(b.s, "data:") /\ Positions(b.s, ",") = {} THEN "IndexError"
    ELSE ""

\* lines 158-159: base64_image.split(',', 1)[1]
CleanBase64(s) ==
    IF StartsWith(s, "data:")
    THEN SubSeq(s, MinOf(Positions(s, ",")) + 1, Len(s))
    ELSE s

\* lines 162-190: the request
BuildRequest(b, t, m) ==
    [url |-> IMAGE_URL_PREFIX \o CleanBase64(b.s),
     temperature |-> PyOr(t, PyNum(DEFAULT_TEMPERATURE)),
     max_completion_tokens |-> PyOr(m, PyNum(DEFAULT_MAX_TOKENS))]

\* result.__dict__: the fields of the record and analysis_timestamp
WithTimestamp(rec, ts) ==
    [k \in (DOMAIN rec) \cup {"analysis_timestamp"} |->
        IF k = "analysis_timestamp" THEN ts ELSE rec[k]]

(***************************************************************************)
(* json.dumps(result).lower() and the pest rule of test_with_base64_data   *)
(***************************************************************************)
UpperCase == "ABCDEFGHIJKLMNOPQRSTUVWXYZ"
LowerCase == "abcdefghijklmnopqrstuvwxyz"

LowerCh(c) ==
    LET idx == Positions(UpperCase, c) IN
    IF idx = {} THEN c ELSE Ch(LowerCase, MinOf(idx))

\* str.lower() of s[i..j]
RECURSIVE LowerRange(_, _, _)
LowerRange(s, i, j) ==
    IF i > j THEN ""
    ELSE IF i = j THEN LowerCh(Ch(s, i))
    ELSE LowerRange(s, i, (i + j) \div 2) \o LowerRange(s, (i + j) \div 2 + 1, j)

Lower(s) == LowerRange(s, 1, Len(s))

\* datetime.isoformat() of the clock value t
IsoFormat(t) == "2026-11-01T20:08:0" \o ToString(t) \o "+00:00"

\* the keys of result.__dict__ in the order of the dataclass fields
DictOrder ==
    <<"disease_detected", "disease_name", "disease_type", "severity", "confidence",
      "symptoms", "possible_causes", "treatment", "common_pests", "pest_detected",
      "pest_name", "pest_severity", "pest_confidence", "pest_symptoms",
      "pest_treatment", "analysis_timestamp">>

\* json.dumps of a Python value.  A list or dict is written with its compact
\* text: json.dumps puts a space after each separator, the words are the same.
DumpPyVal(v) ==
    CASE v.t = "none" -> "null"
      [] v.t = "bool" -> IF v.n # 0 THEN "true" ELSE "false"
      [] v.t = "num"  -> ToString(v.n)
      [] v.t = "str"  -> Str(v.s)
      [] OTHER -> v.s

\* json.dumps of the value of key k
DumpValue(k, v) ==
    IF k \in BoolFields THEN (IF v THEN "true" ELSE "false")
    ELSE IF k \in NumberFields THEN ToString(v) \o ".0"
    ELSE IF k = "analysis_timestamp" THEN Str(IsoFormat(v))
    ELSE DumpPyVal(v)

RECURSIVE DumpMembers(_, _)
DumpMembers(d, keys) ==
    IF keys = <<>> THEN ""
    ELSE Str(keys[1]) \o ": " \o DumpValue(keys[1], d[keys[1]])
         \o (IF Len(keys) = 1 THEN "" ELSE ", " \o DumpMembers(d, Tail(keys)))

\* json.dumps(result)
Dumps(d) ==
    LET InDict(k) == k \in DOMAIN d IN
    "{" \o DumpMembers(d, SelectSeq(DictOrder, InDict)) \o "}"

\* utils.py line 34
PEST_KEYWORDS ==
    {"insect", "worm", "larva", "chewing", "holes", "bite", "pest", "aphid",
     "caterpillar"}

Mentions(text) == \E keyword \in PEST_KEYWORDS : Occurrences(text, keyword) # {}

\* utils.py lines 37-56
PestInfestation ==
    [disease_detected |-> TRUE,
     disease_name |-> PyStr("Pest Infestation"),
     disease_type |-> PyStr("insect/pest"),
     severity |-> PyStr("moderate"),
     confidence |-> 85,
     symptoms |-> PyList("[" \o Str("Visible insects or larvae on the leaf surface")
                         \o "," \o Str("Holes or chewed edges on the leaf")
                         \o "," \o Str("Yellowing or drooping around pest-affected areas")
                         \o "]"),
     possible_causes |-> PyList("[" \o
         Str("Aphids, caterpillars, beetles, or leaf miners feeding on foliage") \o "]"),
     treatment |-> PyList("[" \o Str("Remove and dispose of affected leaves")
                          \o "," \o Str("Spray neem oil or insecticidal soap")
                          \o "," \o Str("Use biological controls (ladybugs, lacewings)")
                          \o "]")]

\* utils.py lines 32-56: the keywords are looked for in the whole dump
PestRule(d) ==
    IF Mentions(Lower(Dumps(d))) THEN PestInfestation ELSE d

(***************************************************************************)
(* The calls                                                               *)
(***************************************************************************)
Payloads ==
    {PyNone, PyVal("bytes", "AAAA", 0), PyStr(""), PyStr("AAAA"),
     PyStr("data:image/png;base64,AAAA"), PyStr("data:image/png;base64"),
     PyStr("data:a,b,c")}

\* the temperature and max_tokens arguments of a call
OptionArgs ==
    {<<PyNone, PyNone>>, <<PyNum(0), PyNone>>, <<PyNone, PyNum(0)>>,
     <<PyNum(7), PyNum(512)>>, <<PyNum(3), PyNum(1024)>>}

\* a reply for a healthy leaf
HealthyReply ==
    << Pair("disease_detected", "false"),
       Pair("disease_name", "null"),
       Pair("disease_type", Str("healthy")),
       Pair("severity", Str("none")),
       Pair("confidence", "90"),
       Pair("symptoms", "[]"),
       Pair("possible_causes", "[]"),
       Pair("treatment", "[" \o Str("Keep watering") \o "]") >>

\* what the model service answers
Replies ==
    {ObjectText(InvalidImageReply), ObjectText(ValidLeafReply),
     ObjectText(HealthyReply),
     FENCE_JSON \o "\n" \o ObjectText(HealthyReply) \o "\n" \o FENCE,
     Sentence, ObjectText(<<Pair("confidence", Str("eighty-five"))>>)}

AnalyzeInit == NormIdle /\ AnalyzeIdle /\ ConcIdle /\ MockIdle

\* the module is imported: line 39 is evaluated once, in the class body
LoadModule ==
    /\ default_timestamp = NotLoaded
    /\ default_timestamp' = clock
    /\ UNCHANGED <<clock, calls, via, base64_image, temperature, max_tokens, a_pc,
                   request, sent, returned, a_error, records, t_result>>
    /\ UNCHANGED <<normVars, concVars, mockVars>>

Tick ==
    /\ clock < MaxClock
    /\ clock' = clock + 1
    /\ UNCHANGED <<default_timestamp, calls, via, base64_image, temperature,
                   max_tokens, a_pc, request, sent, returned, a_error, records,
                   t_result>>
    /\ UNCHANGED <<normVars, concVars, mockVars>>

\* lines 147-190: the call up to the request, or to the exception re-raised
\* at line 201
StartCall(v, b, t, m) ==
    /\ default_timestamp # NotLoaded
    /\ a_pc # "Awaiting"
    /\ calls < MaxCalls
    /\ calls' = calls + 1
    /\ via' = v
    /\ base64_image' = b
    /\ temperature' = t
    /\ max_tokens' = m
    /\ returned' = NoDict
    /\ t_result' = NoDict
    /\ IF PayloadError(b) # ""
       THEN /\ a_pc' = "Raised"
            /\ a_error' = PayloadError(b)
            /\ request' = NoRequest
            /\ sent' = 0
       ELSE /\ a_pc' = "Awaiting"
            /\ a_error' = ""
            /\ request' = BuildRequest(b, t, m)
            /\ sent' = 1
    /\ UNCHANGED <<clock, default_timestamp, records>>
    /\ UNCHANGED <<normVars, concVars, mockVars>>

\* a caller calls analyze_leaf_image_base64
AnalyzeCall ==
    \E b \in Payloads, o \in OptionArgs : StartCall("direct", b, o[1], o[2])

\* utils.py lines 28-29: test_with_base64_data calls it with the defaults
TestCall ==
    \E b \in Payloads : StartCall("test", b, PyNone, PyNone)

\* utils.py line 28: LeafDiseaseDetector() raises without an API key (lines
\* 62-64); test_with_base64_data prints the error and returns None
TestNoApiKey ==
    /\ default_timestamp # NotLoaded
    /\ a_pc # "Awaiting"
    /\ calls < MaxCalls
    /\ calls' = calls + 1
    /\ via' = "test"
    /\ base64_image' \in Payloads
    /\ temperature' = PyNone
    /\ max_tokens' = PyNone
    /\ a_pc' = "NotCalled"
    /\ a_error' = ""
    /\ request' = NoRequest
    /\ sent' = 0
    /\ returned' = NoDict
    /\ t_result' = NoDict
    /\ UNCHANGED <<clock, default_timestamp, records>>
    /\ UNCHANGED <<normVars, concVars, mockVars>>

\* lines 192-201: the service answers, the reply is parsed and the record's
\* __dict__ returned or the exception re-raised; utils.py lines 31-65 for a
\* call by test_with_base64_data
ServiceReply ==
    /\ a_pc = "Awaiting"
    /\ \E text \in Replies : \E o \in {Normalize(text)} :
          IF o.pc = "Done"
          THEN /\ a_pc' = "Returned"
               /\ a_error' = ""
               /\ returned' = WithTimestamp(o.result, default_timestamp)
               /\ records' = Append(records,
                      [analysis_timestamp |-> default_timestamp,
                       constructed_at |-> clock, call |-> calls])
               /\ t_result' = IF via = "test"
                              THEN PestRule(WithTimestamp(o.result, default_timestamp))
                              ELSE NoDict
          ELSE /\ a_pc' = "Raised"
               /\ a_error' = o.error.kind
               /\ returned' = NoDict
               /\ t_result' = NoDict
               /\ UNCHANGED records
    /\ UNCHANGED <<clock, default_timestamp, calls, via, base64_image, temperature,
                   max_tokens, request, sent>>
    /\ UNCHANGED <<normVars, concVars, mockVars>>

\* line 166 raises: the service or the transport failed
ServiceFailure ==
    /\ a_pc = "Awaiting"
    /\ a_pc' = "Raised"
    /\ a_error' = "APIError"
    /\ UNCHANGED <<clock, default_timestamp, calls, via, base64_image, temperature,
                   max_tokens, request, sent, returned, records, t_result>>
    /\ UNCHANGED <<normVars, concVars, mockVars>>

AnalyzeNext ==
    \/ LoadModule
    \/ Tick
    \/ AnalyzeCall
    \/ TestCall
    \/ TestNoApiKey
    \/ ServiceReply
    \/ ServiceFailure

SpecAnalyze == AnalyzeInit /\ [][AnalyzeNext]_vars

\* analyze_leaf_image_base64 was entered by the current call
AnalyzeCalled == a_pc \in {"Awaiting", "Returned", "Raised"}

(***************************************************************************)
(* C12: every record carries the time at which it was constructed: the     *)
(* analysis_timestamp of each record built by a call equals the clock      *)
(* value at that construction.                                             *)
(***************************************************************************)
C12_TimestampAtConstruction ==
    \A i \in 1..Len(records) :
        records[i].analysis_timestamp = records[i].constructed_at

(***************************************************************************)
(* C13: analyze_leaf_image_base64 called with an empty payload or one that *)
(* is not a string fails with the invalid-input error (ValueError): no     *)
(* request is sent, nothing is returned and the call constructs no record. *)
(***************************************************************************)
C13_EmptyPayloadRejected ==
    (AnalyzeCalled /\ (base64_image.t # "str" \/ base64_image.s = ""))
        => /\ a_pc = "Raised"
           /\ a_error = "ValueError"
           /\ sent = 0
           /\ request = NoRequest
           /\ returned = NoDict
           /\ \A i \in 1..Len(records) : records[i].call # calls

\* an empty payload was rejected by a call that followed a successful one
C13_Witness ==
    /\ a_pc = "Raised"
    /\ base64_image = PyStr("")
    /\ calls = 2
    /\ Len(records) = 1

(***************************************************************************)
(* C14: a non-empty string payload is attached to the request as a JPEG    *)
(* data URL; a payload that starts with "data:" is attached without its    *)
(* prefix, that is as the text after its first ",", also when the payload  *)
(* has no such separator.                                                  *)
(***************************************************************************)
C14_PrefixStripped ==
    (AnalyzeCalled /\ base64_image.t = "str" /\ base64_image.s # "")
        => /\ sent = 1
           /\ IF StartsWith(base64_image.s, "data:")
              THEN \E i \in Positions(base64_image.s, ",") :
                      /\ \A j \in Positions(base64_image.s, ",") : i <= j
                      /\ request.url = IMAGE_URL_PREFIX
                             \o SubSeq(base64_image.s, i + 1, Len(base64_image.s))
              ELSE request.url = IMAGE_URL_PREFIX \o base64_image.s

(***************************************************************************)
(* C15: the request carries the caller's temperature and max_tokens when   *)
(* they are given, 0 included, and the defaults 0.3 and 1024 only when     *)
(* they are not given.                                                     *)
(***************************************************************************)
C15_OptionsOverride ==
    (AnalyzeCalled /\ sent = 1)
        => /\ request.temperature =
                 (IF temperature = PyNone THEN PyNum(DEFAULT_TEMPERATURE)
                  ELSE temperature)
           /\ request.max_completion_tokens =
                 (IF max_tokens = PyNone THEN PyNum(DEFAULT_MAX_TOKENS)
                  ELSE max_tokens)

(***************************************************************************)
(* C17: test_with_base64_data replaces the analysis by the fixed "Pest     *)
(* Infestation" result only when the value of some field mentions a pest   *)
(* keyword, and returns the analysis unchanged otherwise.                  *)
(***************************************************************************)
ValuesMention(d) ==
    \E k \in DOMAIN d : Mentions(Lower(DumpValue(k, d[k])))

C17_PestRuleOnValues ==
    (via = "test" /\ a_pc = "Returned")
        => t_result = (IF ValuesMention(returned) THEN PestInfestation ELSE returned)

(***************************************************************************)
(* Concurrent invocations of _parse_response: every invocation has its own *)
(* response_content, cleaned_response, disease_data and json_match (they   *)
(* are parameters and locals of the method, lines 203-279); self is only   *)
(* read.                                                                   *)
(***************************************************************************)
NumProcs == 2       \* concurrent invocations
Procs == 1..NumProcs

ConcInputs ==
    {ObjectText(HealthyReply),
     FENCE_JSON \o "\n" \o ObjectText(<<Pair("severity", Str("mild"))>>) \o "\n" \o FENCE,
     "Sure: " \o ObjectText(<<Pair("confidence", "80")>>) \o " done",
     Sentence, "[1]", "{}",
     ObjectText(<<Pair("confidence", Str("eighty-five"))>>)}

ConcInit ==
    /\ NormIdle /\ AnalyzeIdle /\ MockIdle
    /\ c_text = [p \in Procs |-> ""]
    /\ c_pc = [p \in Procs |-> "Idle"]
    /\ c_cleaned = [p \in Procs |-> ""]
    /\ c_data = [p \in Procs |-> NoData]
    /\ c_result = [p \in Procs |-> NoResult]
    /\ c_error = [p \in Procs |-> NoError]

\* line 203: the method is entered with its response_content
ConcInvoke(p) ==
    /\ c_pc[p] = "Idle"
    /\ \E text \in ConcInputs : c_text' = [c_text EXCEPT ![p] = text]
    /\ c_pc' = [c_pc EXCEPT ![p] = "Start"]
    /\ UNCHANGED <<c_cleaned, c_data, c_result, c_error>>
    /\ UNCHANGED <<normVars, analyzeVars, mockVars>>

\* faulty variant: cleaned_response kept in one place shared by all invocations
ConcCleanShared(p) ==
    /\ c_pc[p] = "Start"
    /\ c_cleaned' = [q \in Procs |-> CleanResponse(c_text[p])]
    /\ c_pc' = [c_pc EXCEPT ![p] = "DirectParse"]
    /\ UNCHANGED <<c_text, c_data, c_result, c_error>>
    /\ UNCHANGED <<normVars, analyzeVars, mockVars>>

\* lines 209-214
ConcClean(p) ==
    /\ c_pc[p] = "Start"
    /\ c_cleaned' = [c_cleaned EXCEPT ![p] = CleanResponse(c_text[p])]
    /\ c_pc' = [c_pc EXCEPT ![p] = "DirectParse"]
    /\ UNCHANGED <<c_text, c_data, c_result, c_error>>
    /\ UNCHANGED <<normVars, analyzeVars, mockVars>>

\* line 217, json.loads returns
ConcDirectParseSuccess(p) ==
    /\ c_pc[p] = "DirectParse"
    /\ JsonLoads(c_cleaned[p]).ok
    /\ c_data' = [c_data EXCEPT ![p] = JsonLoads(c_cleaned[p])]
    /\ c_pc' = [c_pc EXCEPT ![p] = "Validate"]
    /\ UNCHANGED <<c_text, c_cleaned, c_result, c_error>>
    /\ UNCHANGED <<normVars, analyzeVars, mockVars>>

\* line 217 raises JSONDecodeError, caught at line 240
ConcDirectParseFailure(p) ==
    /\ c_pc[p] = "DirectParse"
    /\ ~JsonLoads(c_cleaned[p]).ok
    /\ c_pc' = [c_pc EXCEPT ![p] = "ExtractEmbedded"]
    /\ UNCHANGED <<c_text, c_cleaned, c_data, c_result, c_error>>
    /\ UNCHANGED <<normVars, analyzeVars, mockVars>>

\* lines 246-250: the match is found and parses
ConcExtractSuccess(p) ==
    /\ c_pc[p] = "ExtractEmbedded"
    /\ LET m == RegexSearch(c_text[p]) IN
       /\ m.found
       /\ JsonLoads(m.group).ok
       /\ c_data' = [c_data EXCEPT ![p] = JsonLoads(m.group)]
    /\ c_pc' = [c_pc EXCEPT ![p] = "Validate"]
    /\ UNCHANGED <<c_text, c_cleaned, c_result, c_error>>
    /\ UNCHANGED <<normVars, analyzeVars, mockVars>>

\* lines 246-279: no match, or the match does not parse; ValueError is raised
ConcExtractFailure(p) ==
    /\ c_pc[p] = "ExtractEmbedded"
    /\ LET m == RegexSearch(c_text[p]) IN ~(m.found /\ JsonLoads(m.group).ok)
    /\ c_error' = [c_error EXCEPT ![p] =
                      [kind |-> "ValueError", key |-> "",
                       msg |-> UnparseableMessage(c_text[p])]]
    /\ c_pc' = [c_pc EXCEPT ![p] = "Failed"]
    /\ UNCHANGED <<c_text, c_cleaned, c_data, c_result>>
    /\ UNCHANGED <<normVars, analyzeVars, mockVars>>

\* lines 221-238 and 252-271: the record is constructed and returned
ConcValidateReturn(p) ==
    /\ c_pc[p] = "Validate"
    /\ BuildResult(c_data[p]).err = ""
    /\ c_result' = [c_result EXCEPT ![p] = BuildResult(c_data[p]).rec]
    /\ c_pc' = [c_pc EXCEPT ![p] = "Done"]
    /\ UNCHANGED <<c_text, c_cleaned, c_data, c_error>>
    /\ UNCHANGED <<normVars, analyzeVars, mockVars>>

\* lines 221-238 and 252-271: an argument raises and leaves the method
ConcValidateRaise(p) ==
    /\ c_pc[p] = "Validate"
    /\ BuildResult(c_data[p]).err # ""
    /\ c_error' = [c_error EXCEPT ![p] =
                      [kind |-> BuildResult(c_data[p]).err,
                       key |-> BuildResult(c_data[p]).key, msg |-> ""]]
    /\ c_pc' = [c_pc EXCEPT ![p] = "Raised"]
    /\ UNCHANGED <<c_text, c_cleaned, c_data, c_result>>
    /\ UNCHANGED <<normVars, analyzeVars, mockVars>>

ConcNext ==
    \/ \E p \in Procs : ConcInvoke(p)
    \/ \E p \in Procs : ConcClean(p)
    \/ \E p \in Procs : ConcDirectParseSuccess(p)
    \/ \E p \in Procs : ConcDirectParseFailure(p)
    \/ \E p \in Procs : ConcExtractSuccess(p)
    \/ \E p \in Procs : ConcExtractFailure(p)
    \/ \E p \in Procs : ConcValidateReturn(p)
    \/ \E p \in Procs : ConcValidateRaise(p)

SpecConc == ConcInit /\ [][ConcNext]_vars

ConcOutcome(p) == [pc |-> c_pc[p], result |-> c_result[p], error |-> c_error[p]]
ConcTerminal(p) == c_pc[p] \in {"Done", "Failed", "Raised"}

(***************************************************************************)
(* C16: under every interleaving of concurrent invocations, the outcome of *)
(* each finished invocation (the fields of the returned record, or the     *)
(* error raised) is the outcome of running it alone on its text, and two   *)
(* finished invocations on the same text have equal outcomes.              *)
(***************************************************************************)
C16_InvocationsIndependent ==
    /\ \A p \in Procs : ConcTerminal(p) => ConcOutcome(p) = Normalize(c_text[p])
    /\ \A p, q \in Procs :
          (ConcTerminal(p) /\ ConcTerminal(q) /\ c_text[p] = c_text[q])
              => ConcOutcome(p) = ConcOutcome(q)

\* an invocation returned its record while another, on a different text,
\* was between its two parsing attempts
C16_Witness ==
    /\ c_pc[1] = "Done"
    /\ c_text[1] = ObjectText(HealthyReply)
    /\ c_result[1].disease_type = PyStr("healthy")
    /\ c_pc[2] = "ExtractEmbedded"
    /\ c_text[2] = Sentence

(***************************************************************************)
(* add_mock_pest_data ("src/main.py")                                      *)
(***************************************************************************)
MaxChoice == 2      \* random.choice draws among the first MaxChoice elements
MaxSpread == 0      \* random.randint draws within MaxSpread of either limit
MaxSkip == 1        \* random.sample(seq, k) draws among the first k + MaxSkip

\* the values of the dict response.json() returns; l holds the entries of a list
MVal(t, s, n, l) == [t |-> t, s |-> s, n |-> n, l |-> l]
MNone == MVal("none", "", 0, <<>>)
MBool(b) == MVal("bool", "", IF b THEN 1 ELSE 0, <<>>)
MNum(n) == MVal("num", "", n, <<>>)
MStr(s) == MVal("str", s, 0, <<>>)
MList(l) == MVal("list", "", 0, l)

\* bool(v)
MTruthy(v) ==
    CASE v.t = "none" -> FALSE
      [] v.t = "bool" -> v.n # 0
      [] v.t = "num"  -> v.n # 0
      [] v.t = "str"  -> v.s # ""
      [] OTHER -> v.l # <<>>

\* result.get(k)
MGet(d, k) == IF k \in DOMAIN d THEN d[k] ELSE MNone

\* result[k] = v for every key of the dict upd
MSet(d, upd) ==
    [k \in (DOMAIN d) \cup (DOMAIN upd) |-> IF k \in DOMAIN upd THEN upd[k] ELSE d[k]]

\* lines 117-158
pest_library ==
    "aphids" :>
        [name |-> "Aphids",
         symptoms |-> <<"Small green/black insects on undersides",
                       "Sticky honeydew residue",
                       "Curled or distorted leaves",
                       "Sooty mold growth">>,
         treatments |-> <<"Spray with insecticidal soap",
                         "Apply neem oil solution",
                         "Introduce ladybugs or lacewings",
                         "Use strong water spray to dislodge">>] @@
    "spider_mites" :>
        [name |-> "Spider Mites",
         symptoms |-> <<"Fine webbing on leaves",
                       "Yellow stippling on leaf surfaces",
                       "Leaf discoloration and drop",
                       "Tiny moving dots on undersides">>,
         treatments |-> <<"Increase humidity around plants",
                         "Apply miticide or horticultural oil",
                         "Spray with water regularly",
                         "Remove heavily infested leaves">>] @@
    "whiteflies" :>
        [name |-> "Whiteflies",
         symptoms |-> <<"Small white flying insects when disturbed",
                       "Yellowing and wilting leaves",
                       "Sticky honeydew secretion",
                       "Sooty mold development">>,
         treatments |-> <<"Use yellow sticky traps",
                         "Apply insecticidal soap",
                         "Introduce parasitic wasps",
                         "Spray with horticultural oil">>] @@
    "mealybugs" :>
        [name |-> "Mealybugs",
         symptoms |-> <<"White cottony masses in leaf axils",
                       "Stunted plant growth",
                       "Yellowing and leaf drop",
                       "Honeydew and sooty mold">>,
         treatments |-> <<"Dab with cotton swab dipped in alcohol",
                         "Apply insecticidal soap",
                         "Use systemic insecticides",
                         "Prune heavily infested areas">>] @@
    "scale_insects" :>
        [name |-> "Scale Insects",
         symptoms |-> <<"Brown/white bumps on stems and leaves",
                       "Yellowing and wilting",
                       "Sticky residue on leaves",
                       "Poor plant growth">>,
         treatments |-> <<"Scrape off visible scales manually",
                         "Apply horticultural oil spray",
                         "Use systemic insecticides",
                         "Prune affected branches">>] @@
    "thrips" :>
        [name |-> "Thrips",
         symptoms |-> <<"Silvery streaks on leaves",
                       "Deformed flowers and buds",
                       "Black specks (excrement)",
                       "Stunted growth">>,
         treatments |-> <<"Use blue sticky traps",
                         "Apply spinosad-based insecticides",
                         "Introduce predatory mites",
                         "Remove affected plant parts">>] @@
    "caterpillars" :>
        [name |-> "Caterpillars",
         symptoms |-> <<"Chewed leaves and holes",
                       "Visible larvae on plants",
                       "Frass (droppings) on leaves",
                       "Skeletonized leaves">>,
         treatments |-> <<"Handpick caterpillars manually",
                         "Apply BT (Bacillus thuringiensis)",
                         "Use floating row covers",
                         "Apply spinosad if severe">>] @@
    "leaf_miners" :>
        [name |-> "Leaf Miners",
         symptoms |-> <<"Winding white trails on leaves",
                       "Blotchy white patches",
                       "Reduced photosynthesis",
                       "Leaf drop in severe cases">>,
         treatments |-> <<"Remove and destroy affected leaves",
                         "Use yellow sticky traps",
                         "Apply spinosad spray",
                         "Introduce parasitic wasps">>]

\* list(pest_library.keys())
all_pests ==
    <<"aphids", "spider_mites", "whiteflies", "mealybugs", "scale_insects", "thrips", "caterpillars", "leaf_miners">>

SEVERITIES == <<"mild", "moderate", "severe">>
RANDINT_LOW == 75
RANDINT_HIGH == 95
SAMPLE_SIZE == 3

\* random.choice(seq)
Choice(seq) ==
    {seq[i] : i \in 1..(IF Len(seq) < MaxChoice THEN Len(seq) ELSE MaxChoice)}

\* random.randint(a, b): both limits are included
RandInt(a, b) == {n \in a..b : n - a <= MaxSpread \/ b - n <= MaxSpread}

\* the sequences of k different elements of I
RECURSIVE Arrangements(_, _)
Arrangements(I, k) ==
    IF k = 0 THEN {<<>>}
    ELSE UNION {{<<i>> \o a : a \in Arrangements(I \ {i}, k - 1)} : i \in I}

\* the sequences of k elements of I
RECURSIVE Tuples(_, _)
Tuples(I, k) ==
    IF k = 0 THEN {<<>>}
    ELSE UNION {{<<i>> \o a : a \in Tuples(I, k - 1)} : i \in I}

\* min(3, len(seq))
SampleSize(seq) == IF Len(seq) < SAMPLE_SIZE THEN Len(seq) ELSE SAMPLE_SIZE

Window(seq, k) == 1..(IF Len(seq) < k + MaxSkip THEN Len(seq) ELSE k + MaxSkip)

\* faulty variant: the positions are drawn with replacement
SampleWithReplacement(seq, k) ==
    {[j \in 1..k |-> seq[a[j]]] : a \in Tuples(Window(seq, k), k)}

\* random.sample(seq, k): k elements at different positions, in the order drawn
Sample(seq, k) ==
    {[j \in 1..k |-> seq[a[j]]] : a \in Arrangements(Window(seq, k), k)}

\* [pest_library[pest]['name'] for pest in common_pests]
Names(keys) == [j \in 1..Len(keys) |-> pest_library[keys[j]].name]

\* lines 171-184: the pest fields for the draws made
PestFound(d, pest_key, severity, confidence, symptoms, treatments, common) ==
    LET pest_data == pest_library[pest_key]
        fields == ("pest_detected" :> MBool(TRUE)) @@
                  ("pest_name" :> MStr(pest_data.name)) @@
                  ("pest_severity" :> MStr(severity)) @@
                  ("pest_confidence" :> MNum(confidence)) @@
                  ("pest_symptoms" :> MList(symptoms)) @@
                  ("pest_treatment" :> MList(treatments))
    IN  IF MTruthy(MGet(d, "disease_detected"))
        THEN MSet(d, fields @@ ("common_pests" :> MList(Names(common))))
        ELSE MSet(d, fields)

\* lines 186-192
NoPest(d) ==
    MSet(d, ("pest_detected" :> MBool(FALSE)) @@
            ("pest_name" :> MNone) @@
            ("pest_severity" :> MStr("none")) @@
            ("pest_confidence" :> MNum(0)) @@
            ("pest_symptoms" :> MList(<<>>)) @@
            ("pest_treatment" :> MList(<<>>)) @@
            ("common_pests" :> MList(<<>>)))

\* lines 195-196
EnsureTimestamp(d, now) ==
    IF "analysis_timestamp" \in DOMAIN d THEN d
    ELSE MSet(d, "analysis_timestamp" :> MStr(IsoFormat(now)))

\* the results the page receives from the service
MockDiseased ==
    ("disease_detected" :> MBool(TRUE)) @@
    ("disease_name" :> MStr("Leaf Spot")) @@
    ("disease_type" :> MStr("fungal")) @@
    ("severity" :> MStr("moderate")) @@
    ("confidence" :> MNum(92)) @@
    ("symptoms" :> MList(<<"Brown spots">>)) @@
    ("possible_causes" :> MList(<<"Humidity">>)) @@
    ("treatment" :> MList(<<"Fungicide">>)) @@
    ("common_pests" :> MList(<<"Beetles">>)) @@
    ("analysis_timestamp" :> MStr(IsoFormat(0)))

MockHealthy ==
    ("disease_detected" :> MBool(FALSE)) @@
    ("disease_name" :> MNone) @@
    ("disease_type" :> MStr("healthy")) @@
    ("severity" :> MStr("none")) @@
    ("confidence" :> MNum(90)) @@
    ("symptoms" :> MList(<<>>)) @@
    ("possible_causes" :> MList(<<>>)) @@
    ("treatment" :> MList(<<"Keep watering">>)) @@
    ("common_pests" :> MList(<<"Beetles">>))

MockInvalid ==
    ("disease_detected" :> MBool(FALSE)) @@
    ("disease_name" :> MNone) @@
    ("disease_type" :> MStr("invalid_image")) @@
    ("severity" :> MStr("none")) @@
    ("confidence" :> MNum(95)) @@
    ("symptoms" :> MList(<<"This image does not contain a plant leaf">>)) @@
    ("possible_causes" :> MList(<<"Invalid image type uploaded">>)) @@
    ("treatment" :> MList(<<"Please upload an image of a plant leaf">>)) @@
    ("analysis_timestamp" :> MStr(IsoFormat(0)))

\* an invalid-image result that claims a disease and a pest
MockInvalidWithPest ==
    MSet(MockInvalid, ("disease_detected" :> MBool(TRUE)) @@
                      ("pest_detected" :> MBool(TRUE)) @@
                      ("pest_name" :> MStr("Beetles")) @@
                      ("pest_confidence" :> MNum(50)) @@
                      ("common_pests" :> MList(<<"Beetles">>)))

\* a reply without the disease keys
MockBare == ("detail" :> MStr("ok")) @@ ("pest_detected" :> MStr("yes"))

MockInputs == {MockDiseased, MockHealthy, MockInvalid, MockInvalidWithPest, MockBare}

MockInit ==
    /\ NormIdle /\ AnalyzeIdle /\ ConcIdle
    /\ mock_now = 0
    /\ mock_in = NoDict
    /\ mock_pc = "Idle"
    /\ mock_result = NoDict

\* src/main.py lines 214-215: the page receives the result of the service
MockReceive ==
    /\ mock_pc = "Idle"
    /\ mock_in' \in MockInputs
    /\ mock_pc' = "Received"
    /\ UNCHANGED <<mock_now, mock_result>>
    /\ UNCHANGED <<normVars, analyzeVars, concVars>>

\* lines 161-166: random.random() < 0.6 and random.random() < 0.3 can each
\* be true or false
PestDetectedChoices(d) ==
    IF MGet(d, "disease_type") = MStr("invalid_image") THEN {FALSE} ELSE BOOLEAN

\* line 196: datetime.now() is read only when the timestamp is missing
NowChoices(d) ==
    IF "analysis_timestamp" \in DOMAIN d THEN {mock_now} ELSE 1..MaxClock

\* lines 113-198 with a pest drawn
AddMockPestFound ==
    /\ mock_pc = "Received"
    /\ TRUE \in PestDetectedChoices(mock_in)
    /\ \E now \in NowChoices(mock_in),
          pest_key \in Choice(all_pests),
          severity \in Choice(SEVERITIES),
          confidence \in RandInt(RANDINT_LOW, RANDINT_HIGH) :
          LET pest_data == pest_library[pest_key] IN
          \E symptoms \in Sample(pest_data.symptoms, SampleSize(pest_data.symptoms)),
             treatments \in Sample(pest_data.treatments, SampleSize(pest_data.treatments)),
             common \in (IF MTruthy(MGet(mock_in, "disease_detected"))
                         THEN Sample(all_pests, SampleSize(all_pests))
                         ELSE {<<>>}) :
             /\ mock_result' = EnsureTimestamp(
                    PestFound(mock_in, pest_key, severity, confidence, symptoms,
                              treatments, common), now)
             /\ mock_now' = now
    /\ mock_pc' = "Returned"
    /\ UNCHANGED mock_in
    /\ UNCHANGED <<normVars, analyzeVars, concVars>>

\* lines 113-198 without a pest
AddMockNoPest ==
    /\ mock_pc = "Received"
    /\ FALSE \in PestDetectedChoices(mock_in)
    /\ \E now \in NowChoices(mock_in) :
          /\ mock_result' = EnsureTimestamp(NoPest(mock_in), now)
          /\ mock_now' = now
    /\ mock_pc' = "Returned"
    /\ UNCHANGED mock_in
    /\ UNCHANGED <<normVars, analyzeVars, concVars>>

MockNext ==
    \/ MockReceive
    \/ AddMockPestFound
    \/ AddMockNoPest

SpecMock == MockInit /\ [][MockNext]_vars

DiseaseKeys ==
    {"disease_detected", "disease_name", "disease_type", "severity", "confidence",
     "symptoms", "possible_causes", "treatment"}

\* l holds three different entries of lib
ThreeOf(l, lib) ==
    /\ Len(l) = 3
    /\ \A j \in 1..3 : \E i \in 1..Len(lib) : l[j] = lib[i]
    /\ \A i, j \in 1..3 : i # j => l[i] # l[j]

(***************************************************************************)
(* C18: when add_mock_pest_data has returned, whatever the input and the   *)
(* random draws: an invalid_image result has pest_detected false; with     *)
(* pest_detected false the pest fields and common_pests are at their       *)
(* defaults; with pest_detected true the pest fields are a pest of the     *)
(* library, a severity of mild/moderate/severe, a confidence in 75..95 and *)
(* three different symptoms and treatments of that pest; the disease       *)
(* fields and a present analysis_timestamp are those of the input.         *)
(***************************************************************************)
C18_MockPestData ==
    mock_pc = "Returned" =>
        LET r == mock_result IN
        /\ MGet(r, "disease_type") = MStr("invalid_image")
              => r["pest_detected"] = MBool(FALSE)
        /\ r["pest_detected"] \in {MBool(FALSE), MBool(TRUE)}
        /\ r["pest_detected"] = MBool(FALSE)
              => /\ r["pest_name"] = MNone
                 /\ r["pest_severity"] = MStr("none")
                 /\ r["pest_confidence"] = MNum(0)
                 /\ r["pest_symptoms"] = MList(<<>>)
                 /\ r["pest_treatment"] = MList(<<>>)
                 /\ r["common_pests"] = MList(<<>>)
        /\ r["pest_detected"] = MBool(TRUE)
              => /\ \E k \in DOMAIN pest_library :
                       /\ r["pest_name"] = MStr(pest_library[k].name)
                       /\ r["pest_symptoms"].t = "list"
                       /\ ThreeOf(r["pest_symptoms"].l, pest_library[k].symptoms)
                       /\ r["pest_treatment"].t = "list"
                       /\ ThreeOf(r["pest_treatment"].l, pest_library[k].treatments)
                 /\ r["pest_severity"] \in {MStr("mild"), MStr("moderate"), MStr("severe")}
                 /\ r["pest_confidence"].t = "num"
                 /\ r["pest_confidence"].n >= 75
                 /\ r["pest_confidence"].n <= 95
        /\ \A k \in DiseaseKeys \cup {"analysis_timestamp"} :
              k \in DOMAIN mock_in => (k \in DOMAIN r /\ r[k] = mock_in[k])
        /\ \A k \in DiseaseKeys : k \in DOMAIN r => k \in DOMAIN mock_in

\* a pest was drawn for a diseased leaf that came with its timestamp
C18_Witness ==
    /\ mock_pc = "Returned"
    /\ mock_in = MockDiseased
    /\ mock_result["pest_detected"] = MBool(TRUE)
    /\ mock_result["pest_name"] = MStr("Spider Mites")
    /\ mock_result["pest_confidence"] = MNum(95)
    /\ Len(mock_result["pest_symptoms"].l) = 3
    /\ mock_result["analysis_timestamp"] = MStr(IsoFormat(0))
====
